---- MODULE Spec2Model ----
(***************************************************************************)
(* Model of the three batch scripts of azure-devops-scripts:               *)
(*   src/app/main.py                       ("main":  disable and archive   *)
(*                                          inactive pipelines)            *)
(*   src/scripts/get_team_admin_emails.py  ("audit": enforce               *)
(*                                          releaseCreatorCanBeApprover)   *)
(*   src/scripts/azdo-clean-project-teams.py ("clean": remove AAD users    *)
(*                                          from teams)                    *)
(* One run of one script is one behaviour.  Init picks the script, the     *)
(* server's contents and the run's arguments; every await of the code is   *)
(* a step, so that concurrent tasks interleave exactly at their awaits.    *)
(***************************************************************************)
EXTENDS Integers, Sequences, FiniteSets, TLC

\* ------------------------------------------------------------- bounds
MaxProjects == 2    \* projects the server holds
MaxItems == 2       \* children (pipelines, release definitions) per project
MaxCapacity == 2    \* largest gate capacity tried (main.py fixes 10, the
                    \* audit script takes --concurrency); every capacity
                    \* 1..MaxCapacity is run against up to
                    \* MaxProjects * MaxItems concurrent tasks
MaxFailures == 1    \* non-success HTTP responses the server gives in a run
MaxTeams == 1       \* teams per project (team cleanup)
MaxMembers == 2     \* direct members per team (team cleanup)
MaxPageSize == 2    \* largest page size the server pages its listings with
MaxSecs == 4        \* createdDate parsing: seconds 0..MaxSecs of one minute
MaxMembersListed == 2  \* members the Team Admin group lists

VARIABLES
    script,        \* which program runs: "main", "audit" or "clean"
    dry_run,       \* args.dry_run
    capacity,      \* the value the semaphore was built with
    semValue,      \* asyncio.Semaphore._value: permits still available
    failures,      \* non-success responses given so far
    nProjects,     \* the server's projects are 1..nProjects
    children,      \* server: children[p] is the child listing of project p
    folders,       \* server: folders[p] = number of "\archive" folders of p
    mainPc,        \* position of main()
    parentPc,      \* per project: find_inactive_pipeline / process_project
    findIdx,       \* per project: the loop index of find_inactive_pipeline
    included,      \* per project: inactive_pipelines, the item indexes kept
    itemPc,        \* per item: disable_and_archive_pipeline / process_definition
    result,        \* per item: what the item's task returned to gather
    setupTodo,     \* main.py: unique_project_names not yet visited
    setupCur,      \* main.py: project of the running get_or_create_folder
    setupPc,       \* main.py: position inside get_or_create_folder
    setupCalls,    \* per project: get_or_create_folder calls started
    writesIssued,  \* per item: state-changing calls issued for the item
    folderPuts,    \* per project: folder-creating PUTs issued
    log,           \* what the run logged about mutation calls
    sessionClosed, \* the aiohttp session was closed by __aexit__
    loopClosed,    \* asyncio.run() has returned
    singleProject, \* audit: --project was given (the project is project 1)
    csvFile,       \* audit: the file at output_path: "absent", "stale", "fresh"
    emailCsv,      \* audit: the file the sent email attached, or "none"
    pageSize,      \* clean: server: items per page of a listing
    emptyPage,     \* clean: server: listings carry an empty page with a token
    nTeams,        \* clean: server: project p has the teams <<p,1>>..<<p,nTeams[p]>>
    membersOf,     \* clean: server: the member descriptors of each team
    listing,       \* clean: the listing the running get_* function pages through
    url,           \* clean: the page the next GET asks for (0: url is None)
    acc,           \* clean: the list the running get_* function has built
    gets,          \* clean: GETs the running get_* function has issued
    projList,      \* clean: projects, as get_projects returned it
    teamList,      \* clean: teams, as get_teams returned it
    memberList,    \* clean: members, as get_team_members returned it
    pIdx,          \* clean: position of the loop over projects
    tIdx,          \* clean: position of the loop over teams
    mIdx,          \* clean: position of the loop over members
    deletes,       \* clean: the membership DELETEs issued, in order
    reported,      \* main.py: <<n>> once "n pipeline successfully disabled" is logged
    sinkError,     \* audit: the exception send_email_with_csv raised, or "none"
    argFlag,       \* command line: "--dry-run", "--no-dry-run" or "none"
    envDryRun,     \* environment: the value of DRY_RUN, or "unset"
    parsed,        \* args.dry_run as parse_args() left it
    stampSecs,     \* timestamps: the second of the minute a pipeline was created in
    frac3,         \* timestamps: its fraction as the server writes it with 3 digits
    frac7,         \* timestamps: its fraction as the server writes it with 7 digits
    thresholdSecs, \* timestamps: threshold_days, as a second of the same minute
    created_date,  \* timestamps: created_date of the renderings with 0, 3, 7 digits
    isOlder,       \* timestamps: created_date < threshold_days, per rendering
    adminPc,       \* get_team_admin_emails: where the call stands
    groupsBody,    \* server: the body of the graph groups listing of the project
    membersBody,   \* server: principalName of each member of the group ("": none)
    groupsStatus,  \* the status the groups GET was answered with (0: not yet)
    membersStatus, \* the status the members GET was answered with (0: not yet)
    adminEmails,   \* the list get_team_admin_emails returned
    recording,     \* history: whether the order in which tasks return is recorded
    completed,     \* history: the tasks that have returned, in the order they returned
    runNo,         \* audit: 1 in a run, 2 in the run that immediately follows it
    listed         \* listings: per project, the children its listing call returned

vars == <<script, dry_run, capacity, semValue, failures, nProjects, children,
          folders, mainPc, parentPc, findIdx, included, itemPc, result,
          setupTodo, setupCur, setupPc, setupCalls, writesIssued, folderPuts,
          log, sessionClosed, loopClosed, singleProject, csvFile, emailCsv,
          pageSize, emptyPage, nTeams, membersOf, listing, url, acc, gets,
          projList, teamList, memberList, pIdx, tIdx, mIdx, deletes,
          reported, sinkError, argFlag, envDryRun, parsed,
          stampSecs, frac3, frac7, thresholdSecs, created_date, isOlder,
          adminPc, groupsBody, membersBody, groupsStatus, membersStatus,
          adminEmails, recording, completed, runNo, listed>>

\* the arguments of the run: set by Init, never changed
runArgs == <<script, dry_run, capacity, nProjects, singleProject, recording>>

\* the state of the asyncio scripts (main.py, get_team_admin_emails.py)
asyncVars == <<semValue, children, folders, parentPc, findIdx, included, itemPc,
               result, setupTodo, setupCur, setupPc, setupCalls, writesIssued,
               folderPuts, sessionClosed, loopClosed, csvFile, emailCsv,
               reported, sinkError, completed>>

\* the state of azdo-clean-project-teams.py: its server and its locals
cleanServer == <<pageSize, emptyPage, nTeams>>
cleanLoop == <<projList, teamList, memberList, pIdx, tIdx, mIdx>>
cleanPaging == <<listing, url, acc, gets>>
cleanVars == <<cleanServer, membersOf, cleanPaging, cleanLoop, deletes>>

\* the command line and environment of the argument parsers
argVars == <<argFlag, envDryRun, parsed>>

\* the inputs and results of the createdDate parsing of find_inactive_pipeline
timeVars == <<stampSecs, frac3, frac7, thresholdSecs, created_date, isOlder>>

\* the server and the locals of one get_team_admin_emails call
adminServer == <<groupsBody, membersBody>>
adminVars == <<adminPc, adminServer, groupsStatus, membersStatus, adminEmails>>

\* ------------------------------------------------------------ helpers
Projects == 1..MaxProjects
ItemIds == {<<p, i>> : p \in Projects, i \in 1..MaxItems}
TeamIds == {<<p, j>> : p \in Projects, j \in 1..MaxTeams}

RECURSIVE SeqsUpTo(_, _)
\* all sequences over S of length 0..n
SeqsUpTo(S, n) ==
    IF n = 0 THEN {<<>>}
    ELSE LET shorter == SeqsUpTo(S, n - 1)
         IN  shorter \cup {Append(s, x) : s \in {t \in shorter : Len(t) = n - 1}, x \in S}

\* ------------------------------------ main.py: the createdDate of a pipeline
\* Strings are sequences of characters.
DigitChars == <<"0", "1", "2", "3", "4", "5", "6", "7", "8", "9">>
IsDigit(c) == \E d \in 1..10 : DigitChars[d] = c
DigitVal(c) == (CHOOSE d \in 1..10 : DigitChars[d] = c) - 1
TwoDigits(n) == <<DigitChars[(n \div 10) + 1], DigitChars[(n % 10) + 1]>>

\* pipeline["createdDate"] as the server writes it: the date and time to the
\* second ("2023-01-01T00:00:SS"), a "." and the digits of the fraction if
\* it writes a fraction, and "Z".
StampMinute ==
    <<"2", "0", "2", "3", "-", "0", "1", "-", "0", "1", "T", "0", "0", ":", "0", "0", ":">>

CreatedDate(secs, frac) ==
    StampMinute \o TwoDigits(secs)
        \o (IF frac = <<>> THEN <<>> ELSE <<".">> \o frac) \o <<"Z">>

\* main.py 246: pipeline["createdDate"][:19]
StampLen == 19
NoTruncate(s) == s
Truncate19(s) == SubSeq(s, 1, IF Len(s) < StampLen THEN Len(s) ELSE StampLen)

\* the string has the shape "%Y-%m-%dT%H:%M:%S" in its fixed-width form,
\* which is the form the server writes, and nothing after it
MatchesFormat(s) ==
    /\ Len(s) = StampLen
    /\ \A k \in 1..StampLen :
          IF k \in {5, 8} THEN s[k] = "-"
          ELSE IF k = 11 THEN s[k] = "T"
          ELSE IF k \in {14, 17} THEN s[k] = ":"
          ELSE IsDigit(s[k])

NumberAt(s, k) == DigitVal(s[k]) * 10 + DigitVal(s[k + 1])

\* main.py 245-247: datetime.strptime(s, "%Y-%m-%dT%H:%M:%S"), as the seconds
\* since the start of the month (the model's timestamps share year and
\* month); -1 stands for the ValueError strptime raises on a string that
\* does not match, unconverted characters at its end included.
Strptime(s) ==
    IF ~MatchesFormat(s) THEN -1
    ELSE ((NumberAt(s, 9) * 24 + NumberAt(s, 12)) * 60 + NumberAt(s, 15)) * 60
             + NumberAt(s, 18)

\* main.py 245-247: created_date
ParseCreatedDate(s) == Strptime(Truncate19(s))

\* a threshold_days that falls on the whole second secs of the same minute
SecondValue(secs) == Strptime(StampMinute \o TwoDigits(secs))

\* main.py 249: created_date < threshold_days
OlderThan(created, threshold) == created < threshold

\* The run's threshold_days is second 1 of the minute; a pipeline is created
\* in second 0 (older) or in second 1 (as old as the threshold, not older).
RunThreshold == SecondValue(1)
StampOldA == CreatedDate(0, <<"1", "2", "3", "4", "5", "6", "7">>)
StampOldB == CreatedDate(0, <<"9", "8", "7">>)
StampRecent == CreatedDate(1, <<>>)

\* A pipeline of main.py: whether its createdDate is older than the
\* threshold, whether the builds lookup finds a build, and the server-side
\* queueStatus/path.
PipelineKinds ==
    {[old |-> OlderThan(ParseCreatedDate(StampOldA), RunThreshold),
      builds |-> FALSE, disabled |-> FALSE],
     [old |-> OlderThan(ParseCreatedDate(StampOldB), RunThreshold),
      builds |-> TRUE, disabled |-> FALSE],
     [old |-> OlderThan(ParseCreatedDate(StampRecent), RunThreshold),
      builds |-> FALSE, disabled |-> FALSE]}

\* HTTP statuses the server may answer with: success always, and while the
\* failure budget lasts a not-found or a server error.
OkStatus == 200
NotFound == 404
ServerError == 500
Statuses == {OkStatus} \cup (IF failures < MaxFailures THEN {NotFound, ServerError} ELSE {})
Failed(st) == st >= 400
CountFailure(st) == IF Failed(st) THEN failures + 1 ELSE failures

\* asyncio.Semaphore: acquire needs _value > 0 and decrements it, release
\* increments it (async with releases on return and on exception alike).
CanAcquireAlways == semValue >= 0
CanAcquire == semValue > 0
Acquired == semValue - 1
Released == semValue + 1
\* the permit of a task that an exception takes out of its async with
ReleasedOnRaiseLeak == semValue
ReleasedOnRaise == semValue + 1

\* main.py 308: if not dry_run
MainLiveAlways == TRUE
MainLive == ~dry_run
\* get_team_admin_emails.py 118: if self.dry_run
UpdateDryRun == dry_run
\* azdo-clean-project-teams.py 214: if dry_run
RemoveDryRun == dry_run

MainRunning == mainPc \notin {"Done", "Raised"}

\* find_inactive_pipeline: the next pipeline at or after index from whose
\* createdDate is older than the threshold (0: none left).
NextAnyAge(p, from) == IF from <= Len(children[p]) THEN from ELSE 0
NextOld(p, from) ==
    LET cand == {i \in from..Len(children[p]) : children[p][i].old}
    IN  IF cand = {} THEN 0 ELSE CHOOSE i \in cand : \A j \in cand : i <= j

\* main.py 250-252: the line find_inactive_pipeline logs, at level DEBUG, for
\* a pipeline older than the threshold before it looks its builds up
InactiveSince(it) ==
    [item |-> it, call |-> "none", status |-> 0, report |-> "inactive since"]

\* all_inactive_pipelines: the flattened gather result, in project order
\* A task: <<p, 0>> is the task of project p (find_inactive_pipeline,
\* process_project), <<p, i>> with i > 0 the task of its child i
\* (disable_and_archive_pipeline, process_definition).
ProjectTasks == [p \in 1..nProjects |-> <<p, 0>>]

\* The tasks that return in this step join those that had returned.
TaskReturns ==
    completed' =
        IF ~recording THEN completed ELSE
        LET items == {it \in ItemIds : itemPc[it] # "done" /\ itemPc'[it] = "done"}
            parents == {p \in Projects :
                          /\ parentPc[p] \notin {"done", "failed"}
                          /\ parentPc'[p] \in {"done", "failed"}}
        IN  IF items # {} THEN Append(completed, CHOOSE it \in items : TRUE)
            ELSE IF parents # {}
            THEN Append(completed, <<CHOOSE q \in parents : TRUE, 0>>)
            ELSE completed

\* asyncio.gather(*tasks) (main.py 298, 328; get_team_admin_emails.py 241,
\* 287): the list of results is in the order of the awaitables passed in,
\* whatever the order the tasks returned in.
GatherInReturnOrder(tasks) ==
    SelectSeq(completed, LAMBDA t : \E k \in DOMAIN tasks : tasks[k] = t)
Gathered(tasks) == tasks

\* main.py 298-299: all_inactive_pipelines, the sublists of results in turn
RECURSIVE Flatten(_)
Flatten(k) ==
    LET results == Gathered(ProjectTasks)
    IN  IF k > Len(results) THEN <<>>
        ELSE LET p == results[k][1]
             IN  [j \in 1..Len(included[p]) |-> <<p, included[p][j]>>] \o Flatten(k + 1)

AllInactive == Flatten(1)
InactiveSet == {AllInactive[k] : k \in 1..Len(AllInactive)}

\* main.py 328: disable_results, one entry per disable task, whatever it returned
DisableOrder == Gathered(AllInactive)
DisableResults == [k \in 1..Len(DisableOrder) |-> result[DisableOrder[k]]]

\* main.py 312: unique_project_names = {item[0] for item in all_inactive_pipelines}
EveryProjectName == 1..nProjects
UniqueProjectNames == {it[1] : it \in InactiveSet}

ParentTerminal(p) == parentPc[p] \in {"none", "done", "failed", "raised", "cancelled"}
ItemTerminal(it) == itemPc[it] \in {"none", "done", "raised", "cancelled"}

\* ------------------------------------ get_team_admin_emails.py: helpers
\* str.lower() on the environment names the model uses
Lower(s) ==
    CASE s = "Prod" -> "prod"
      [] s = "PROD" -> "prod"
      [] s = "Dev" -> "dev"
      [] OTHER -> s

\* --env, default "prod" (get_team_admin_emails.py 332-336)
TargetEnv == "prod"

\* A release definition: its environments, each with a name and the
\* approval option releaseCreatorCanBeApprover ("true", "false" or "absent").
DefKinds ==
    {[envs |-> <<[name |-> "Dev", approver |-> "true"],
                 [name |-> "Prod", approver |-> "true"]>>],
     [envs |-> <<[name |-> "prod", approver |-> "absent"]>>],
     [envs |-> <<[name |-> "PROD", approver |-> "false"]>>]}

\* get_team_admin_emails.py 208-210: the environment is the target and
\* opts.get("releaseCreatorCanBeApprover", True) is true
NeedsFixExactCase(env) ==
    /\ env.name = TargetEnv
    /\ env.approver # "false"
NeedsFix(env) ==
    /\ Lower(env.name) = Lower(TargetEnv)
    /\ env.approver # "false"

\* get_team_admin_emails.py 207-214: the loop over the environments
DefUpdated(def) == \E k \in DOMAIN def.envs : NeedsFix(def.envs[k])

\* the definition as the loop leaves it, which is what the PUT sends
EnforcedDef(def) ==
    [envs |-> [k \in DOMAIN def.envs |->
                 IF NeedsFix(def.envs[k])
                 THEN [def.envs[k] EXCEPT !.approver = "false"]
                 ELSE def.envs[k]]]

\* result["env_name"]: the name of the last environment the loop changed
DefEnvName(def) ==
    LET fixed == {k \in DOMAIN def.envs : NeedsFix(def.envs[k])}
    IN  IF fixed = {} THEN "None"
        ELSE def.envs[CHOOSE k \in fixed : \A j \in fixed : j <= k].name

\* get_team_admin_emails.py 199-205, 213-214: the row process_definition returns
DefRow(def) ==
    [kind |-> "row", updated |-> DefUpdated(def), env_name |-> DefEnvName(def)]

ItemsOf(p) == {<<p, i>> : i \in 1..Len(children[p])}

\* get_team_admin_emails.py 288-290: final_result keeps the non-empty rows of
\* the projects whose listing succeeded
FinalResult ==
    {it \in ItemIds : parentPc[it[1]] = "done" /\ result[it].kind = "row"}

\* get_team_admin_emails.py 237-241: what process_project returns: the
\* results of its process_definition tasks, each named by its definition
ProjectRows(p) == Gathered([i \in 1..Len(children[p]) |-> <<p, i>>])

\* get_team_admin_emails.py 287-290: final_result as a list: `if sublist`
\* drops the None of a failed project, `if item` the {} of a failed definition
RECURSIVE FinalRows(_)
FinalRows(k) ==
    LET results == Gathered(ProjectTasks)
    IN  IF k > Len(results) THEN <<>>
        ELSE LET p == results[k][1]
             IN  (IF parentPc[p] = "done"
                  THEN SelectSeq(ProjectRows(p), LAMBDA it : result[it].kind = "row")
                  ELSE <<>>) \o FinalRows(k + 1)

final_result == FinalRows(1)

\* ------------------------------- azdo-clean-project-teams.py: helpers
\* Member descriptors, as sequences of characters: two Azure AD users, a
\* group, and an identity whose descriptor begins with "aad" but not "aad.".
Descriptors ==
    {<<"a", "a", "d", ".", "A">>,
     <<"a", "a", "d", ".", "B">>,
     <<"v", "s", "s", "g", "p", ".", "G">>,
     <<"a", "a", "d", "g", "p", ".", "H">>}

AadPrefix == <<"a", "a", "d", ".">>

\* str.startswith
StartsWith(s, prefix) ==
    /\ Len(s) >= Len(prefix)
    /\ SubSeq(s, 1, Len(prefix)) = prefix

\* azdo-clean-project-teams.py 287: the member is an Azure AD user
IsAadLoose(descriptor) == StartsWith(descriptor, <<"a", "a", "d">>)
IsAadUser(descriptor) == StartsWith(descriptor, AadPrefix)

\* The server cuts a listing into pages of pageSize items.
RECURSIVE Chunks(_, _)
Chunks(items, size) ==
    IF Len(items) <= size THEN <<items>>
    ELSE <<SubSeq(items, 1, size)>> \o Chunks(SubSeq(items, size + 1, Len(items)), size)

\* The chain of pages of a listing: its chunks and, with emptyPage, an empty
\* page that carries a token, put after the first chunk when others follow
\* and before it otherwise.  Every page but the last carries a token.
Chain(items) ==
    LET c == Chunks(items, pageSize)
    IN  IF ~emptyPage THEN c
        ELSE IF Len(c) > 1 THEN <<c[1], <<>>>> \o SubSeq(c, 2, Len(c))
        ELSE <<<<>>>> \o c

\* what the server lists under a listing
ListingItems(l) ==
    CASE l.kind = "projects" -> [k \in 1..nProjects |-> k]
      [] l.kind = "teams" -> [j \in 1..nTeams[l.id] |-> <<l.id, j>>]
      [] l.kind = "members" -> membersOf[l.id]
      [] l.kind = "children" -> children[l.id]
      [] OTHER -> <<>>

\* the body of the answer to the GET of page cursor: its "value" and its
\* "continuationToken" (0: the body has none)
ServerPage(l, cursor) ==
    LET c == Chain(ListingItems(l))
    IN  [value |-> c[cursor],
         token |-> IF cursor < Len(c) THEN cursor + 1 ELSE 0]

\* azdo-clean-project-teams.py 116, 148, 183: xs.extend(data.get("value", []))
Extended(list, page) == list \o page.value

\* azdo-clean-project-teams.py 118-122, 150-154, 185-189: the next url is
\* built from the token if there is one and is None otherwise
NextUrlStopsOnEmpty(page) == IF page.token # 0 /\ page.value # <<>> THEN page.token ELSE 0
NextUrl(page) == IF page.token # 0 THEN page.token ELSE 0

RECURSIVE ConcatAll(_)
ConcatAll(pages) ==
    IF pages = <<>> THEN <<>> ELSE Head(pages) \o ConcatAll(Tail(pages))

\* statuses of the membership DELETE: 204 on success
NoContent == 204
DeleteStatuses ==
    {NoContent} \cup (IF failures < MaxFailures THEN {NotFound, ServerError} ELSE {})

\* azdo-clean-project-teams.py 221-226: what remove_member_from_team prints
DeleteReport(st) ==
    IF st = NoContent THEN "removed"
    ELSE IF st = NotFound THEN "already removed"
    ELSE "failed"

\* ---------------------------------------------------------------- Init
\* no createdDate is being parsed
InitTimeIdle ==
    /\ stampSecs = 0
    /\ frac3 = <<>>
    /\ frac7 = <<>>
    /\ thresholdSecs = 0
    /\ created_date = <<>>
    /\ isOlder = <<>>

\* no get_team_admin_emails call is being followed
InitAdminIdle ==
    /\ adminPc = "idle"
    /\ groupsBody = "n/a"
    /\ membersBody = <<>>
    /\ groupsStatus = 0
    /\ membersStatus = 0
    /\ adminEmails = <<>>

InitCommon ==
    /\ completed = <<>>
    /\ runNo = 1
    /\ listed = [p \in Projects |-> <<>>]
    /\ dry_run \in BOOLEAN
    /\ failures = 0
    /\ mainPc = "Start"
    /\ parentPc = [p \in Projects |-> "none"]
    /\ findIdx = [p \in Projects |-> 0]
    /\ included = [p \in Projects |-> <<>>]
    /\ itemPc = [it \in ItemIds |-> "none"]
    /\ result = [it \in ItemIds |-> [kind |-> "unset"]]
    /\ setupTodo = {}
    /\ setupCur = 0
    /\ setupPc = "idle"
    /\ setupCalls = [p \in Projects |-> 0]
    /\ writesIssued = [it \in ItemIds |-> 0]
    /\ folderPuts = [p \in Projects |-> 0]
    /\ log = {}
    /\ sessionClosed = FALSE
    /\ loopClosed = FALSE
    /\ listing = [kind |-> "none", id |-> 0]
    /\ url = 0
    /\ acc = <<>>
    /\ gets = 0
    /\ projList = <<>>
    /\ teamList = <<>>
    /\ memberList = <<>>
    /\ pIdx = 0
    /\ tIdx = 0
    /\ mIdx = 0
    /\ deletes = <<>>
    /\ reported = <<>>
    /\ sinkError = "none"
    /\ argFlag = "n/a"
    /\ envDryRun = "n/a"
    /\ parsed = "n/a"
    /\ InitTimeIdle
    /\ InitAdminIdle

InitMain ==
    /\ script = "main"
    /\ capacity \in 1..MaxCapacity
    /\ semValue = capacity
    /\ nProjects \in 0..MaxProjects
    /\ children \in [Projects -> SeqsUpTo(PipelineKinds, MaxItems)]
    /\ \A p \in Projects : p > nProjects => children[p] = <<>>
    /\ folders \in [Projects -> 0..2]
    /\ \A p \in Projects : p > nProjects => folders[p] = 0
    /\ singleProject = FALSE
    /\ csvFile = "absent"
    /\ emailCsv = "none"
    /\ pageSize = 1
    /\ emptyPage = FALSE
    /\ nTeams = [p \in Projects |-> 0]
    /\ membersOf = [t \in TeamIds |-> <<>>]
    /\ InitCommon

InitAudit ==
    /\ script = "audit"
    /\ capacity \in 1..MaxCapacity
    /\ semValue = capacity
    /\ singleProject \in BOOLEAN
    /\ nProjects \in (IF singleProject THEN {1} ELSE 0..MaxProjects)
    /\ children \in [Projects -> SeqsUpTo(DefKinds, MaxItems)]
    /\ \A p \in Projects : p > nProjects => children[p] = <<>>
    /\ folders = [p \in Projects |-> 0]
    /\ csvFile \in {"absent", "stale"}
    /\ emailCsv = "none"
    /\ pageSize = 1
    /\ emptyPage = FALSE
    /\ nTeams = [p \in Projects |-> 0]
    /\ membersOf = [t \in TeamIds |-> <<>>]
    /\ InitCommon

InitClean ==
    /\ script = "clean"
    /\ capacity = 1
    /\ semValue = capacity
    /\ singleProject = FALSE
    /\ nProjects \in 0..MaxProjects
    /\ children = [p \in Projects |-> <<>>]
    /\ folders = [p \in Projects |-> 0]
    /\ csvFile = "absent"
    /\ emailCsv = "none"
    /\ pageSize \in 1..MaxPageSize
    /\ emptyPage \in BOOLEAN
    /\ nTeams \in [Projects -> 0..MaxTeams]
    /\ \A p \in Projects : p > nProjects => nTeams[p] = 0
    /\ membersOf \in [TeamIds -> SeqsUpTo(Descriptors, MaxMembers)]
    /\ \A t \in TeamIds : \A a, b \in DOMAIN membersOf[t] :
            membersOf[t][a] = membersOf[t][b] => a = b
    /\ \A t \in TeamIds : t[2] > nTeams[t[1]] => membersOf[t] = <<>>
    /\ InitCommon

Init ==
    /\ InitMain \/ InitAudit \/ InitClean
    /\ recording = FALSE

\* ------------------------------------------------------ main.py: main()
\* main.py 285-289: open the session, await session.get_projects()
MainStart ==
    /\ script = "main"
    /\ mainPc = "Start"
    /\ mainPc' = "GetProjects"
    /\ UNCHANGED <<runArgs, semValue, failures, children, folders, parentPc,
                   findIdx, included, itemPc, result, setupTodo, setupCur,
                   setupPc, setupCalls, writesIssued, folderPuts, log,
                   sessionClosed, loopClosed, reported, sinkError,
                   csvFile, emailCsv, cleanVars, argVars, timeVars,
                   adminVars, runNo, listed, completed>>

\* main.py 289-298: the projects arrive and one find_inactive_pipeline task
\* per project is handed to gather; a failed GET raises out of main, and
\* __aexit__ closes the session.
MainGetProjectsResp ==
    /\ script = "main"
    /\ mainPc = "GetProjects"
    /\ \E st \in Statuses :
        /\ failures' = CountFailure(st)
        /\ IF Failed(st)
           THEN /\ mainPc' = "Raised"
                /\ sessionClosed' = TRUE
                /\ UNCHANGED parentPc
           ELSE /\ mainPc' = "Gather1"
                /\ parentPc' = [p \in Projects |-> IF p <= nProjects THEN "wait" ELSE "none"]
                /\ UNCHANGED sessionClosed
    /\ UNCHANGED <<runArgs, semValue, children, folders, findIdx, included,
                   itemPc, result, setupTodo, setupCur, setupPc, setupCalls,
                   writesIssued, folderPuts, log, loopClosed, reported, sinkError,
                   csvFile, emailCsv, cleanVars, argVars, timeVars,
                   adminVars, runNo, listed, completed>>

\* main.py 237-238: async with semaphore, then the pipelines GET is issued
FindAcquire(p) ==
    /\ script = "main"
    /\ MainRunning
    /\ parentPc[p] = "wait"
    /\ CanAcquire
    /\ semValue' = Acquired
    /\ parentPc' = [parentPc EXCEPT ![p] = "list"]
    /\ UNCHANGED <<runArgs, failures, children, folders, mainPc, findIdx,
                   included, itemPc, result, setupTodo, setupCur, setupPc,
                   setupCalls, writesIssued, folderPuts, log, sessionClosed,
                   loopClosed, reported, sinkError,
                   csvFile, emailCsv, cleanVars, argVars, timeVars,
                   adminVars, runNo, listed, completed>>

\* main.py 238-256, 263-269: the pipelines arrive; the loop runs without an
\* await up to the first pipeline older than the threshold, whose builds
\* GET is issued; with none the task returns and releases its permit.
FindListResp(p) ==
    /\ script = "main"
    /\ MainRunning
    /\ parentPc[p] = "list"
    /\ \E st \in Statuses :
        /\ failures' = CountFailure(st)
        /\ IF Failed(st)
           THEN /\ parentPc' = [parentPc EXCEPT ![p] = "raised"]
                /\ semValue' = ReleasedOnRaise
                /\ UNCHANGED findIdx
                /\ UNCHANGED log
           ELSE LET i == NextOld(p, 1)
                IN  IF i = 0
                    THEN /\ parentPc' = [parentPc EXCEPT ![p] = "done"]
                         /\ semValue' = Released
                         /\ UNCHANGED <<findIdx, log>>
                    ELSE /\ parentPc' = [parentPc EXCEPT ![p] = "builds"]
                         /\ findIdx' = [findIdx EXCEPT ![p] = i]
                         /\ log' = log \cup {InactiveSince(<<p, i>>)}
                         /\ UNCHANGED semValue
    /\ UNCHANGED <<runArgs, children, folders, mainPc, included, itemPc,
                   result, setupTodo, setupCur, setupPc, setupCalls,
                   writesIssued, folderPuts, sessionClosed, loopClosed, reported, sinkError,
                   csvFile, emailCsv, cleanVars, argVars, timeVars,
                   adminVars, runNo, listed>>
    /\ TaskReturns

\* main.py 253-269: the builds of pipeline findIdx[p] arrive; with none the
\* pipeline is appended to inactive_pipelines; the loop goes on to the next
\* old pipeline or the task returns.
FindBuildsResp(p) ==
    /\ script = "main"
    /\ MainRunning
    /\ parentPc[p] = "builds"
    /\ \E st \in Statuses :
        /\ failures' = CountFailure(st)
        /\ IF Failed(st)
           THEN /\ parentPc' = [parentPc EXCEPT ![p] = "raised"]
                /\ semValue' = ReleasedOnRaise
                /\ UNCHANGED <<findIdx, included, log>>
           ELSE LET i == findIdx[p]
                    j == NextOld(p, i + 1)
                IN  /\ included' = [included EXCEPT ![p] =
                                      IF children[p][i].builds THEN @ ELSE Append(@, i)]
                    /\ IF j = 0
                       THEN /\ parentPc' = [parentPc EXCEPT ![p] = "done"]
                            /\ semValue' = Released
                            /\ UNCHANGED <<findIdx, log>>
                       ELSE /\ findIdx' = [findIdx EXCEPT ![p] = j]
                            /\ log' = log \cup {InactiveSince(<<p, j>>)}
                            /\ UNCHANGED <<parentPc, semValue>>
    /\ UNCHANGED <<runArgs, children, folders, mainPc, itemPc, result,
                   setupTodo, setupCur, setupPc, setupCalls, writesIssued,
                   folderPuts, sessionClosed, loopClosed, reported, sinkError,
                   csvFile, emailCsv, cleanVars, argVars, timeVars,
                   adminVars, runNo, listed>>
    /\ TaskReturns

\* main.py 298: gather re-raises the first exception of a child; main leaves
\* the async with block and __aexit__ closes the session.
MainGather1Raise ==
    /\ script = "main"
    /\ mainPc = "Gather1"
    /\ \E p \in Projects : parentPc[p] = "raised"
    /\ mainPc' = "Raised"
    /\ sessionClosed' = TRUE
    /\ UNCHANGED <<runArgs, semValue, failures, children, folders, parentPc,
                   findIdx, included, itemPc, result, setupTodo, setupCur,
                   setupPc, setupCalls, writesIssued, folderPuts, log,
                   loopClosed, reported, sinkError,
                   csvFile, emailCsv, cleanVars, argVars, timeVars,
                   adminVars, runNo, listed, completed>>

\* main.py 298-312: every child returned; in a dry run main is finished,
\* otherwise unique_project_names is built.
MainGather1Return ==
    /\ script = "main"
    /\ mainPc = "Gather1"
    /\ \A p \in Projects : parentPc[p] \in {"none", "done"}
    /\ IF ~MainLive
       THEN /\ mainPc' = "Done"
            /\ sessionClosed' = TRUE
            /\ UNCHANGED setupTodo
       ELSE /\ mainPc' = "Setup"
            /\ setupTodo' = UniqueProjectNames
            /\ UNCHANGED sessionClosed
    /\ UNCHANGED <<runArgs, semValue, failures, children, folders, parentPc,
                   findIdx, included, itemPc, result, setupCur, setupPc,
                   setupCalls, writesIssued, folderPuts, log, loopClosed, reported, sinkError,
                   csvFile, emailCsv, cleanVars, argVars, timeVars,
                   adminVars, runNo, listed, completed>>

\* main.py 198: if folder_response["count"] > 1
MultipleFolders(count) == count > 1
\* main.py 204: if not folder
AlwaysCreate(count) == TRUE
NoFolder(count) == count = 0

\* main.py 313-318, 192-195: the next project of the set (a set has no
\* order) enters get_or_create_folder, which issues the folders GET.
SetupStart ==
    /\ script = "main"
    /\ mainPc = "Setup"
    /\ setupPc = "idle"
    /\ \E p \in setupTodo :
        /\ setupTodo' = setupTodo \ {p}
        /\ setupCur' = p
        /\ setupCalls' = [setupCalls EXCEPT ![p] = @ + 1]
    /\ setupPc' = "get"
    /\ UNCHANGED <<runArgs, semValue, failures, children, folders, mainPc,
                   parentPc, findIdx, included, itemPc, result, writesIssued,
                   folderPuts, log, sessionClosed, loopClosed, reported, sinkError,
                   csvFile, emailCsv, cleanVars, argVars, timeVars,
                   adminVars, runNo, listed, completed>>

\* main.py 195-211: a failed GET raises, more than one folder raises
\* AzDoMultipleFolderException, no folder issues the creating PUT, one
\* folder is returned as it is.
SetupGetResp ==
    /\ script = "main"
    /\ mainPc = "Setup"
    /\ setupPc = "get"
    /\ \E st \in Statuses :
        /\ failures' = CountFailure(st)
        /\ IF Failed(st) \/ MultipleFolders(folders[setupCur])
           THEN /\ mainPc' = "Raised"
                /\ sessionClosed' = TRUE
                /\ setupPc' = "idle"
                /\ UNCHANGED folderPuts
           ELSE IF NoFolder(folders[setupCur])
           THEN /\ setupPc' = "put"
                /\ folderPuts' = [folderPuts EXCEPT ![setupCur] = @ + 1]
                /\ UNCHANGED <<mainPc, sessionClosed>>
           ELSE /\ setupPc' = "idle"
                /\ UNCHANGED <<mainPc, sessionClosed, folderPuts>>
    /\ UNCHANGED <<runArgs, semValue, children, folders, parentPc, findIdx,
                   included, itemPc, result, setupTodo, setupCur, setupCalls,
                   writesIssued, log, loopClosed, reported, sinkError,
                   csvFile, emailCsv, cleanVars, argVars, timeVars,
                   adminVars, runNo, listed, completed>>

\* main.py 205-207, 134-152: the answer to the folder-creating PUT; put()
\* logs a failure and returns None, so the loop goes on either way.
SetupPutResp ==
    /\ script = "main"
    /\ mainPc = "Setup"
    /\ setupPc = "put"
    /\ \E st \in Statuses :
        /\ failures' = CountFailure(st)
        /\ folders' = [folders EXCEPT ![setupCur] = IF Failed(st) THEN @ ELSE @ + 1]
        /\ log' = IF Failed(st)
                  THEN log \cup {[item |-> <<setupCur, 0>>, call |-> "PUT folder",
                                  status |-> st, report |-> "error"]}
                  ELSE log
    /\ setupPc' = "idle"
    /\ UNCHANGED <<runArgs, semValue, children, mainPc, parentPc, findIdx,
                   included, itemPc, result, setupTodo, setupCur, setupCalls,
                   writesIssued, folderPuts, sessionClosed, loopClosed, reported, sinkError,
                   csvFile, emailCsv, cleanVars, argVars, timeVars,
                   adminVars, runNo, listed, completed>>

\* main.py 320-328: the folder loop is over; one disable_and_archive_pipeline
\* task per inactive pipeline is handed to gather.
SetupFinish ==
    /\ script = "main"
    /\ mainPc = "Setup"
    /\ setupPc = "idle"
    /\ setupTodo = {}
    /\ mainPc' = "Gather2"
    /\ itemPc' = [it \in ItemIds |-> IF it \in InactiveSet THEN "wait" ELSE "none"]
    /\ UNCHANGED <<runArgs, semValue, failures, children, folders, parentPc,
                   findIdx, included, result, setupTodo, setupCur, setupPc,
                   setupCalls, writesIssued, folderPuts, log, sessionClosed,
                   loopClosed, reported, sinkError,
                   csvFile, emailCsv, cleanVars, argVars, timeVars,
                   adminVars, runNo, listed, completed>>

\* main.py 217-220: async with semaphore, then the definition GET is issued
DisableAcquire(it) ==
    /\ script = "main"
    /\ MainRunning
    /\ itemPc[it] = "wait"
    /\ CanAcquire
    /\ semValue' = Acquired
    /\ itemPc' = [itemPc EXCEPT ![it] = "get"]
    /\ UNCHANGED <<runArgs, failures, children, folders, mainPc, parentPc,
                   findIdx, included, result, setupTodo, setupCur, setupPc,
                   setupCalls, writesIssued, folderPuts, log, sessionClosed,
                   loopClosed, reported, sinkError,
                   csvFile, emailCsv, cleanVars, argVars, timeVars,
                   adminVars, runNo, listed, completed>>

\* main.py 218-227, 119-132: get() raises on a failed status
\* (raise_for_status=True) and the exception leaves the task through the
\* async with, which releases the permit; otherwise the PUT is issued.
DisableGetResp(it) ==
    /\ script = "main"
    /\ MainRunning
    /\ itemPc[it] = "get"
    /\ \E st \in Statuses :
        /\ failures' = CountFailure(st)
        /\ IF Failed(st)
           THEN /\ itemPc' = [itemPc EXCEPT ![it] = "raised"]
                /\ semValue' = ReleasedOnRaise
                /\ log' = log \cup {[item |-> it, call |-> "GET definition",
                                     status |-> st, report |-> "raised"]}
                /\ UNCHANGED writesIssued
           ELSE /\ itemPc' = [itemPc EXCEPT ![it] = "put"]
                /\ writesIssued' = [writesIssued EXCEPT ![it] = @ + 1]
                /\ UNCHANGED <<semValue, log>>
    /\ UNCHANGED <<runArgs, children, folders, mainPc, parentPc, findIdx,
                   included, result, setupTodo, setupCur, setupPc, setupCalls,
                   folderPuts, sessionClosed, loopClosed, reported, sinkError,
                   csvFile, emailCsv, cleanVars, argVars, timeVars,
                   adminVars, runNo, listed, completed>>

\* main.py 224-228, 134-152: put() returns the body on success; on a failed
\* status it logs the error and returns None; the task returns either way.
DisablePutResp(it) ==
    /\ script = "main"
    /\ MainRunning
    /\ itemPc[it] = "put"
    /\ \E st \in Statuses :
        /\ failures' = CountFailure(st)
        /\ IF Failed(st)
           THEN /\ result' = [result EXCEPT ![it] = [kind |-> "None"]]
                /\ log' = log \cup {[item |-> it, call |-> "PUT definition",
                                     status |-> st, report |-> "error"]}
                /\ UNCHANGED children
           ELSE /\ result' = [result EXCEPT ![it] = [kind |-> "response"]]
                /\ children' = [children EXCEPT ![it[1]][it[2]].disabled = TRUE]
                /\ UNCHANGED log
    /\ itemPc' = [itemPc EXCEPT ![it] = "done"]
    /\ semValue' = Released
    /\ UNCHANGED <<runArgs, folders, mainPc, parentPc, findIdx, included,
                   setupTodo, setupCur, setupPc, setupCalls, writesIssued,
                   folderPuts, sessionClosed, loopClosed, reported, sinkError,
                   csvFile, emailCsv, cleanVars, argVars, timeVars,
                   adminVars, runNo, listed>>
    /\ TaskReturns

\* main.py 328: gather re-raises the first exception of a child task
MainGather2Raise ==
    /\ script = "main"
    /\ mainPc = "Gather2"
    /\ \E it \in ItemIds : itemPc[it] = "raised"
    /\ mainPc' = "Raised"
    /\ sessionClosed' = TRUE
    /\ UNCHANGED <<runArgs, semValue, failures, children, folders, parentPc,
                   findIdx, included, itemPc, result, setupTodo, setupCur,
                   setupPc, setupCalls, writesIssued, folderPuts, log,
                   loopClosed, reported, sinkError,
                   csvFile, emailCsv, cleanVars, argVars, timeVars,
                   adminVars, runNo, listed, completed>>

\* main.py 328-329: every disable task returned; main logs
\* "%d pipeline successfully disabled" with len(disable_results) and leaves
\* the async with block, whose __aexit__ closes the session.
MainGather2Return ==
    /\ script = "main"
    /\ mainPc = "Gather2"
    /\ \A it \in ItemIds : itemPc[it] \in {"none", "done"}
    /\ mainPc' = "Done"
    /\ reported' = <<Len(DisableResults)>>
    /\ sessionClosed' = TRUE
    /\ UNCHANGED <<runArgs, semValue, failures, children, folders, parentPc,
                   findIdx, included, itemPc, result, setupTodo, setupCur,
                   setupPc, setupCalls, writesIssued, folderPuts, log,
                   loopClosed, sinkError,
                   csvFile, emailCsv, cleanVars, argVars, timeVars,
                   adminVars, runNo, listed, completed>>

\* ------------------------------- get_team_admin_emails.py: main() and tasks
\* get_team_admin_emails.py 272-279: with --project main awaits
\* process_project itself, which issues its listing GET at once; otherwise
\* main awaits get_all_projects().
AuditStart ==
    /\ script = "audit"
    /\ mainPc = "Start"
    /\ IF singleProject
       THEN /\ mainPc' = "Gather1"
            /\ parentPc' = [parentPc EXCEPT ![1] = "list"]
       ELSE /\ mainPc' = "GetProjects"
            /\ UNCHANGED parentPc
    /\ UNCHANGED <<runArgs, semValue, failures, children, folders, findIdx,
                   included, itemPc, result, setupTodo, setupCur, setupPc,
                   setupCalls, writesIssued, folderPuts, log, sessionClosed,
                   loopClosed, reported, sinkError, csvFile, emailCsv, cleanVars, argVars, timeVars,
                   adminVars, runNo, listed, completed>>

\* get_team_admin_emails.py 279-287, 86-97, 235-236: _request raises on a
\* status of 400 or more, which leaves main; otherwise one process_project
\* task per project is handed to gather.  The event loop runs each new task
\* up to its first await before it handles any response, and the first
\* await of process_project is its release-definitions GET, which takes no
\* semaphore: all the listings are in flight at once.
AuditGetProjectsResp ==
    /\ script = "audit"
    /\ mainPc = "GetProjects"
    /\ \E st \in Statuses :
        /\ failures' = CountFailure(st)
        /\ IF Failed(st)
           THEN /\ mainPc' = "Raised"
                /\ sessionClosed' = TRUE
                /\ UNCHANGED parentPc
           ELSE /\ mainPc' = "Gather1"
                /\ parentPc' = [p \in Projects |-> IF p <= nProjects THEN "list" ELSE "none"]
                /\ UNCHANGED sessionClosed
    /\ UNCHANGED <<runArgs, semValue, children, folders, findIdx, included,
                   itemPc, result, setupTodo, setupCur, setupPc, setupCalls,
                   writesIssued, folderPuts, log, loopClosed, reported, sinkError, csvFile,
                   emailCsv, cleanVars, argVars, timeVars,
                   adminVars, runNo, listed, completed>>

\* get_team_admin_emails.py 236-243: a failed listing is caught, printed and
\* the task returns None; otherwise one process_definition task per
\* definition is handed to gather (with no definition gather returns at once).
ProjListResp(p) ==
    /\ script = "audit"
    /\ MainRunning
    /\ parentPc[p] = "list"
    /\ \E st \in Statuses :
        /\ failures' = CountFailure(st)
        /\ IF Failed(st)
           THEN /\ parentPc' = [parentPc EXCEPT ![p] = "failed"]
                /\ UNCHANGED itemPc
           ELSE /\ parentPc' = [parentPc EXCEPT ![p] =
                                  IF ItemsOf(p) = {} THEN "done" ELSE "gather"]
                /\ itemPc' = [it \in ItemIds |-> IF it \in ItemsOf(p) THEN "wait" ELSE itemPc[it]]
    /\ UNCHANGED <<runArgs, semValue, children, folders, mainPc, findIdx,
                   included, result, setupTodo, setupCur, setupPc, setupCalls,
                   writesIssued, folderPuts, log, sessionClosed, loopClosed, reported, sinkError,
                   csvFile, emailCsv, cleanVars, argVars, timeVars,
                   adminVars, runNo, listed>>
    /\ TaskReturns

\* get_team_admin_emails.py 194-197: async with semaphore, then the
\* definition GET is issued
DefAcquire(it) ==
    /\ script = "audit"
    /\ MainRunning
    /\ itemPc[it] = "wait"
    /\ CanAcquire
    /\ semValue' = Acquired
    /\ itemPc' = [itemPc EXCEPT ![it] = "get"]
    /\ UNCHANGED <<runArgs, failures, children, folders, mainPc, parentPc,
                   findIdx, included, result, setupTodo, setupCur, setupPc,
                   setupCalls, writesIssued, folderPuts, log, sessionClosed,
                   loopClosed, reported, sinkError, csvFile, emailCsv, cleanVars, argVars, timeVars,
                   adminVars, runNo, listed, completed>>

\* get_team_admin_emails.py 197-229, 116-124: a failed GET is caught, printed
\* and the task returns {}; otherwise the row is built; if an environment
\* was changed update_release_definition is called, which in a dry run
\* prints and returns and otherwise issues the PUT.
DefGetResp(it) ==
    /\ script = "audit"
    /\ MainRunning
    /\ itemPc[it] = "get"
    /\ \E st \in Statuses :
        /\ failures' = CountFailure(st)
        /\ LET def == children[it[1]][it[2]]
           IN  IF Failed(st)
               THEN /\ itemPc' = [itemPc EXCEPT ![it] = "done"]
                    /\ semValue' = Released
                    /\ result' = [result EXCEPT ![it] = [kind |-> "empty"]]
                    /\ log' = log \cup {[item |-> it, call |-> "GET definition",
                                         status |-> st, report |-> "failed"]}
                    /\ UNCHANGED writesIssued
               ELSE IF DefUpdated(def) /\ ~UpdateDryRun
               THEN /\ itemPc' = [itemPc EXCEPT ![it] = "put"]
                    /\ writesIssued' = [writesIssued EXCEPT ![it] = @ + 1]
                    /\ result' = [result EXCEPT ![it] = DefRow(def)]
                    /\ UNCHANGED <<semValue, log>>
               ELSE /\ itemPc' = [itemPc EXCEPT ![it] = "done"]
                    /\ semValue' = Released
                    /\ result' = [result EXCEPT ![it] = DefRow(def)]
                    /\ log' = IF DefUpdated(def)
                              THEN log \cup {[item |-> it, call |-> "none",
                                              status |-> 0, report |-> "dry-run"]}
                              ELSE log
                    /\ UNCHANGED writesIssued
    /\ UNCHANGED <<runArgs, children, folders, mainPc, parentPc, findIdx,
                   included, setupTodo, setupCur, setupPc, setupCalls,
                   folderPuts, sessionClosed, loopClosed, reported, sinkError, csvFile, emailCsv, cleanVars, argVars, timeVars,
                   adminVars, runNo, listed>>
    /\ TaskReturns

\* get_team_admin_emails.py 123-131, 224: the answer to the PUT is printed as
\* "Updated" or, for any status of 400 or more, as "Failed to update"; the
\* row is returned either way.
DefPutResp(it) ==
    /\ script = "audit"
    /\ MainRunning
    /\ itemPc[it] = "put"
    /\ \E st \in Statuses :
        /\ failures' = CountFailure(st)
        /\ children' = IF Failed(st) THEN children
                       ELSE [children EXCEPT ![it[1]][it[2]] = EnforcedDef(@)]
        /\ log' = log \cup {[item |-> it, call |-> "PUT definition", status |-> st,
                             report |-> IF Failed(st) THEN "failed" ELSE "updated"]}
    /\ itemPc' = [itemPc EXCEPT ![it] = "done"]
    /\ semValue' = Released
    /\ UNCHANGED <<runArgs, folders, mainPc, parentPc, findIdx, included,
                   result, setupTodo, setupCur, setupPc, setupCalls,
                   writesIssued, folderPuts, sessionClosed, loopClosed, reported, sinkError,
                   csvFile, emailCsv, cleanVars, argVars, timeVars,
                   adminVars, runNo, listed>>
    /\ TaskReturns

\* get_team_admin_emails.py 241: the gather of the project's definitions returns
ProjGatherReturn(p) ==
    /\ script = "audit"
    /\ MainRunning
    /\ parentPc[p] = "gather"
    /\ \A it \in ItemsOf(p) : itemPc[it] = "done"
    /\ parentPc' = [parentPc EXCEPT ![p] = "done"]
    /\ UNCHANGED <<runArgs, semValue, failures, children, folders, mainPc,
                   findIdx, included, itemPc, result, setupTodo, setupCur,
                   setupPc, setupCalls, writesIssued, folderPuts, log,
                   sessionClosed, loopClosed, reported, sinkError, csvFile, emailCsv, cleanVars, argVars, timeVars,
                   adminVars, runNo, listed>>
    /\ TaskReturns

\* get_team_admin_emails.py 276-277, 287-305: process_project (or the gather
\* of all of them) returned; without --project the non-empty rows are
\* exported to the CSV file, if there are any.
AuditGatherReturn ==
    /\ script = "audit"
    /\ mainPc = "Gather1"
    /\ \A p \in Projects : parentPc[p] \in {"none", "done", "failed"}
    /\ mainPc' = "Report"
    /\ csvFile' = IF ~singleProject /\ FinalResult # {} THEN "fresh" ELSE csvFile
    /\ UNCHANGED <<runArgs, semValue, failures, children, folders, parentPc,
                   findIdx, included, itemPc, result, setupTodo, setupCur,
                   setupPc, setupCalls, writesIssued, folderPuts, log,
                   sessionClosed, loopClosed, reported, sinkError, emailCsv, cleanVars, argVars, timeVars,
                   adminVars, runNo, listed, completed>>

\* get_team_admin_emails.py 306-313, 247-265: the admin addresses are
\* collected (get_team_admin_emails catches every exception) and
\* send_email_with_csv opens the CSV file and sends it.  open() on a missing
\* file and a failed SMTP delivery raise; nothing catches them, so the
\* exception leaves main.
AuditReport ==
    /\ script = "audit"
    /\ mainPc = "Report"
    /\ \E smtpOk \in BOOLEAN :
        IF csvFile = "absent"
        THEN /\ mainPc' = "Raised"
             /\ sinkError' = "FileNotFoundError"
             /\ UNCHANGED emailCsv
        ELSE IF ~smtpOk
        THEN /\ mainPc' = "Raised"
             /\ sinkError' = "SMTPException"
             /\ UNCHANGED emailCsv
        ELSE /\ mainPc' = "Done"
             /\ emailCsv' = csvFile
             /\ UNCHANGED sinkError
    /\ sessionClosed' = TRUE
    /\ UNCHANGED <<runArgs, semValue, failures, children, folders, parentPc,
                   findIdx, included, itemPc, result, setupTodo, setupCur,
                   setupPc, setupCalls, writesIssued, folderPuts, log,
                   loopClosed, reported, csvFile, cleanVars, argVars, timeVars,
                   adminVars, runNo, listed, completed>>

\* ------------------------------- azdo-clean-project-teams.py: main()
\* Where main() stands after its loops have moved on: the next HTTP call it
\* makes (pc "Paging": the first page of lst; pc "Members": the member at
\* m), or "Done".  An empty list makes its loop body "continue".
AfterProject(pl, p) ==
    IF p > Len(pl)
    THEN [pc |-> "Done", p |-> p, t |-> tIdx, m |-> mIdx, lst |-> listing]
    ELSE [pc |-> "Paging", p |-> p, t |-> tIdx, m |-> mIdx,
          lst |-> [kind |-> "teams", id |-> pl[p]]]

AfterTeam(pl, tl, p, t) ==
    IF t > Len(tl)
    THEN AfterProject(pl, p + 1)
    ELSE [pc |-> "Paging", p |-> p, t |-> t, m |-> mIdx,
          lst |-> [kind |-> "members", id |-> tl[t]]]

AfterMember(pl, tl, ml, p, t, m) ==
    IF m > Len(ml)
    THEN AfterTeam(pl, tl, p, t + 1)
    ELSE [pc |-> "Members", p |-> p, t |-> t, m |-> m, lst |-> listing]

\* main() moves to position r; a get_* function that starts has url set to
\* the first page and an empty list (97-109, 126-141, 158-176)
MoveTo(r) ==
    /\ mainPc' = r.pc
    /\ pIdx' = r.p
    /\ tIdx' = r.t
    /\ mIdx' = r.m
    /\ IF r.pc = "Paging"
       THEN /\ listing' = r.lst
            /\ url' = 1
            /\ acc' = <<>>
            /\ gets' = 0
       ELSE UNCHANGED cleanPaging

\* azdo-clean-project-teams.py 251-252: main() calls get_projects
CleanStart ==
    /\ script = "clean"
    /\ mainPc = "Start"
    /\ MoveTo([pc |-> "Paging", p |-> 0, t |-> 0, m |-> 0,
               lst |-> [kind |-> "projects", id |-> 0]])
    /\ UNCHANGED <<runArgs, asyncVars, failures, log, cleanServer, membersOf,
                   projList, teamList, memberList, deletes, argVars, timeVars,
                   adminVars, runNo, listed>>

\* azdo-clean-project-teams.py 110-122, 142-154, 177-189: one turn of the
\* while url loop: the GET of the page, an exception for a status other
\* than 200, otherwise the items are appended and the next url is set.
CleanGetPage ==
    /\ script = "clean"
    /\ mainPc = "Paging"
    /\ url # 0
    /\ \E st \in Statuses :
        /\ failures' = CountFailure(st)
        /\ IF Failed(st)
           THEN /\ mainPc' = "Raised"
                /\ UNCHANGED <<url, acc>>
           ELSE LET page == ServerPage(listing, url)
                IN  /\ acc' = Extended(acc, page)
                    /\ url' = NextUrl(page)
                    /\ UNCHANGED mainPc
    /\ gets' = gets + 1
    /\ UNCHANGED <<runArgs, asyncVars, log, cleanServer, membersOf, listing,
                   cleanLoop, deletes, argVars, timeVars,
                   adminVars, runNo, listed>>

\* azdo-clean-project-teams.py 123, 155, 190 and 252-284: url is None, the
\* get_* function returns its list and main() goes on to its next call.
CleanListReturn ==
    /\ script = "clean"
    /\ mainPc = "Paging"
    /\ url = 0
    /\ CASE listing.kind = "projects" ->
              /\ projList' = acc
              /\ MoveTo(AfterProject(acc, 1))
              /\ UNCHANGED <<teamList, memberList>>
         [] listing.kind = "teams" ->
              /\ teamList' = acc
              /\ MoveTo(AfterTeam(projList, acc, pIdx, 1))
              /\ UNCHANGED <<projList, memberList>>
         [] OTHER ->
              /\ memberList' = acc
              /\ MoveTo(AfterMember(projList, teamList, acc, pIdx, tIdx, 1))
              /\ UNCHANGED <<projList, teamList>>
    /\ UNCHANGED <<runArgs, asyncVars, failures, log, cleanServer, membersOf,
                   deletes, argVars, timeVars,
                   adminVars, runNo, listed>>

\* azdo-clean-project-teams.py 284-300, 193-226: one member: an Azure AD
\* user is removed (in a dry run the removal is only printed, otherwise the
\* DELETE is sent and its status printed), anything else is skipped.
CleanMember ==
    /\ script = "clean"
    /\ mainPc = "Members"
    /\ LET d == memberList[mIdx]
           team == teamList[tIdx]
           who == <<team[1], team[2], mIdx>>
       IN  IF ~IsAadUser(d)
           THEN /\ log' = log \cup {[item |-> who, call |-> "none", status |-> 0,
                                      report |-> "skipped"]}
                /\ UNCHANGED <<failures, membersOf, deletes>>
           ELSE IF RemoveDryRun
           THEN /\ log' = log \cup {[item |-> who, call |-> "none", status |-> 0,
                                      report |-> "dry-run"]}
                /\ UNCHANGED <<failures, membersOf, deletes>>
           ELSE \E st \in DeleteStatuses :
                /\ failures' = CountFailure(st)
                /\ deletes' = Append(deletes, <<team, d>>)
                /\ membersOf' = IF st \in {NoContent, NotFound}
                                THEN [membersOf EXCEPT ![team] =
                                        SelectSeq(@, LAMBDA x : x # d)]
                                ELSE membersOf
                /\ log' = log \cup {[item |-> who, call |-> "DELETE membership",
                                     status |-> st, report |-> DeleteReport(st)]}
    /\ MoveTo(AfterMember(projList, teamList, memberList, pIdx, tIdx, mIdx + 1))
    /\ UNCHANGED <<runArgs, asyncVars, cleanServer, projList, teamList,
                   memberList, argVars, timeVars,
                   adminVars, runNo, listed>>

\* ------------------------------------------------ the end of asyncio.run
\* main.py 333: when main() has ended, asyncio.run cancels every task still
\* pending; a task cancelled inside its async with releases its permit.
CancelParent(p) ==
    /\ script = "main"
    /\ ~MainRunning
    /\ ~ParentTerminal(p)
    /\ parentPc' = [parentPc EXCEPT ![p] = "cancelled"]
    /\ semValue' = IF parentPc[p] \in {"list", "builds"} THEN Released ELSE semValue
    /\ UNCHANGED <<runArgs, failures, children, folders, mainPc, findIdx,
                   included, itemPc, result, setupTodo, setupCur, setupPc,
                   setupCalls, writesIssued, folderPuts, log, sessionClosed,
                   loopClosed, reported, sinkError,
                   csvFile, emailCsv, cleanVars, argVars, timeVars,
                   adminVars, runNo, listed, completed>>

\* A task cancelled while its PUT is in flight: whether the server applied
\* the PUT is not known to the run, either outcome is possible.
CancelItem(it) ==
    /\ script = "main"
    /\ ~MainRunning
    /\ ~ItemTerminal(it)
    /\ itemPc' = [itemPc EXCEPT ![it] = "cancelled"]
    /\ semValue' = IF itemPc[it] \in {"get", "put"} THEN Released ELSE semValue
    /\ IF itemPc[it] = "put"
       THEN \E applied \in BOOLEAN :
                children' = [children EXCEPT ![it[1]][it[2]].disabled = @ \/ applied]
       ELSE UNCHANGED children
    /\ UNCHANGED <<runArgs, failures, folders, mainPc, parentPc, findIdx,
                   included, result, setupTodo, setupCur, setupPc, setupCalls,
                   writesIssued, folderPuts, log, sessionClosed, loopClosed, reported, sinkError,
                   csvFile, emailCsv, cleanVars, argVars, timeVars,
                   adminVars, runNo, listed, completed>>

\* asyncio.run returns (or re-raises) once no task is left
LoopClose ==
    /\ script \in {"main", "audit"}
    /\ ~MainRunning
    /\ ~loopClosed
    /\ \A p \in Projects : ParentTerminal(p)
    /\ \A it \in ItemIds : ItemTerminal(it)
    /\ loopClosed' = TRUE
    /\ UNCHANGED <<runArgs, semValue, failures, children, folders, mainPc,
                   parentPc, findIdx, included, itemPc, result, setupTodo,
                   setupCur, setupPc, setupCalls, writesIssued, folderPuts,
                   log, sessionClosed, reported, sinkError,
                   csvFile, emailCsv, cleanVars, argVars, timeVars,
                   adminVars, runNo, listed, completed>>

\* ---------------------------------------------------------------- Next
Next ==
    \/ MainStart
    \/ MainGetProjectsResp
    \/ \E p \in Projects : FindAcquire(p)
    \/ \E p \in Projects : FindListResp(p)
    \/ \E p \in Projects : FindBuildsResp(p)
    \/ MainGather1Raise
    \/ MainGather1Return
    \/ SetupStart
    \/ SetupGetResp
    \/ SetupPutResp
    \/ SetupFinish
    \/ \E it \in ItemIds : DisableAcquire(it)
    \/ \E it \in ItemIds : DisableGetResp(it)
    \/ \E it \in ItemIds : DisablePutResp(it)
    \/ MainGather2Raise
    \/ MainGather2Return
    \/ AuditStart
    \/ AuditGetProjectsResp
    \/ \E p \in Projects : ProjListResp(p)
    \/ \E it \in ItemIds : DefAcquire(it)
    \/ \E it \in ItemIds : DefGetResp(it)
    \/ \E it \in ItemIds : DefPutResp(it)
    \/ \E p \in Projects : ProjGatherReturn(p)
    \/ AuditGatherReturn
    \/ AuditReport
    \/ CleanStart
    \/ CleanGetPage
    \/ CleanListReturn
    \/ CleanMember
    \/ \E p \in Projects : CancelParent(p)
    \/ \E it \in ItemIds : CancelItem(it)
    \/ LoopClose

Spec == Init /\ [][Next]_vars

\* ------------------------------------------- the argument parsers
\* values of the DRY_RUN environment variable the model tries
EnvValues ==
    {"unset", "True", "true", "TRUE", "1", "t", "T", "y", "Y", "yes", "Yes",
     "False", "false", "0", "no", "n", "off", ""}

ArgFlags == {"none", "--dry-run", "--no-dry-run"}

\* str.lower() on the values above
LowerValue(s) ==
    CASE s \in {"True", "TRUE"} -> "true"
      [] s = "T" -> "t"
      [] s = "Y" -> "y"
      [] s = "Yes" -> "yes"
      [] s = "False" -> "false"
      [] OTHER -> s

\* main.py 37-39 and azdo-clean-project-teams.py 33-43: str_to_bool; the two
\* scripts accept different words
StrToBool(sc, value) ==
    IF sc = "main"
    THEN LowerValue(value) \in {"true", "1", "t", "y", "yes"}
    ELSE LowerValue(value) \in {"true", "1", "yes", "y"}

\* os.getenv("DRY_RUN", "True")
GetEnvDryRun(env) == IF env = "unset" THEN "True" ELSE env

\* The value parse_args() gives args.dry_run ("error": argparse rejects the
\* command line).  main.py 66-72 and azdo-clean-project-teams.py 69-75 use
\* BooleanOptionalAction with default str_to_bool(os.getenv("DRY_RUN",
\* "True")); get_team_admin_emails.py 337-339 uses store_true, whose default
\* is False and which knows no --no-dry-run and reads no environment.
ParseDryRun(sc, flag, env) ==
    IF sc = "audit"
    THEN CASE flag = "--dry-run" -> "True"
           [] flag = "none" -> "False"
           [] OTHER -> "error"
    ELSE CASE flag = "--dry-run" -> "True"
           [] flag = "--no-dry-run" -> "False"
           [] OTHER -> IF StrToBool(sc, GetEnvDryRun(env)) THEN "True" ELSE "False"

\* no run of a script is in progress: the run state at its defaults
InitNoRun ==
    /\ recording = FALSE
    /\ completed = <<>>
    /\ runNo = 1
    /\ listed = [p \in Projects |-> <<>>]
    /\ dry_run = FALSE
    /\ capacity = 1
    /\ semValue = 1
    /\ singleProject = FALSE
    /\ nProjects = 0
    /\ children = [p \in Projects |-> <<>>]
    /\ folders = [p \in Projects |-> 0]
    /\ csvFile = "absent"
    /\ emailCsv = "none"
    /\ pageSize = 1
    /\ emptyPage = FALSE
    /\ nTeams = [p \in Projects |-> 0]
    /\ membersOf = [t \in TeamIds |-> <<>>]
    /\ failures = 0
    /\ mainPc = "Start"
    /\ parentPc = [p \in Projects |-> "none"]
    /\ findIdx = [p \in Projects |-> 0]
    /\ included = [p \in Projects |-> <<>>]
    /\ itemPc = [it \in ItemIds |-> "none"]
    /\ result = [it \in ItemIds |-> [kind |-> "unset"]]
    /\ setupTodo = {}
    /\ setupCur = 0
    /\ setupPc = "idle"
    /\ setupCalls = [p \in Projects |-> 0]
    /\ writesIssued = [it \in ItemIds |-> 0]
    /\ folderPuts = [p \in Projects |-> 0]
    /\ log = {}
    /\ sessionClosed = FALSE
    /\ loopClosed = FALSE
    /\ listing = [kind |-> "none", id |-> 0]
    /\ url = 0
    /\ acc = <<>>
    /\ gets = 0
    /\ projList = <<>>
    /\ teamList = <<>>
    /\ memberList = <<>>
    /\ pIdx = 0
    /\ tIdx = 0
    /\ mIdx = 0
    /\ deletes = <<>>
    /\ reported = <<>>
    /\ sinkError = "none"

InitArgs ==
    /\ script \in {"main", "audit", "clean"}
    /\ argFlag \in ArgFlags
    /\ envDryRun \in EnvValues
    /\ parsed = "unparsed"
    /\ InitNoRun
    /\ InitTimeIdle
    /\ InitAdminIdle

\* parser.parse_args(): main.py 276-283, azdo-clean-project-teams.py
\* 235-236, get_team_admin_emails.py 352
ParseArgs ==
    /\ parsed = "unparsed"
    /\ parsed' = ParseDryRun(script, argFlag, envDryRun)
    /\ dry_run' = (parsed' = "True")
    /\ UNCHANGED <<script, capacity, nProjects, singleProject, recording, asyncVars,
                   failures, mainPc, log, cleanVars, argFlag, envDryRun,
                   timeVars, adminVars, runNo, listed>>

NextArgs == ParseArgs

SpecArgs == InitArgs /\ [][NextArgs]_vars

\* ------------------------------------------ the createdDate parsing
\* fractions of a second as the server writes them with 3 and with 7 digits
Fractions3 == {<<"0", "0", "0">>, <<"9", "8", "7">>}
Fractions7 ==
    {<<"0", "0", "0", "0", "0", "0", "0">>, <<"1", "2", "3", "4", "5", "6", "7">>}

\* one pipeline's creation second, written with 0, 3 and 7 fraction digits,
\* and a threshold on a whole second
InitTime ==
    /\ script = "main"
    /\ stampSecs \in 0..MaxSecs
    /\ frac3 \in Fractions3
    /\ frac7 \in Fractions7
    /\ thresholdSecs \in 0..(MaxSecs + 1)
    /\ created_date = <<>>
    /\ isOlder = <<>>
    /\ argFlag = "n/a"
    /\ envDryRun = "n/a"
    /\ parsed = "n/a"
    /\ InitNoRun
    /\ InitAdminIdle

\* the three renderings of the creation time
Renderings ==
    <<CreatedDate(stampSecs, <<>>), CreatedDate(stampSecs, frac3),
      CreatedDate(stampSecs, frac7)>>

\* main.py 245-249 on each rendering
ParseStamps ==
    /\ created_date = <<>>
    /\ created_date' = [k \in 1..3 |-> ParseCreatedDate(Renderings[k])]
    /\ isOlder' = [k \in 1..3 |->
                     OlderThan(ParseCreatedDate(Renderings[k]), SecondValue(thresholdSecs))]
    /\ UNCHANGED <<runArgs, asyncVars, failures, mainPc, log, cleanVars,
                   argVars, stampSecs, frac3, frac7, thresholdSecs, adminVars, runNo, listed>>

NextTime == ParseStamps

SpecTime == InitTime /\ [][NextTime]_vars

\* ------------------------- get_team_admin_emails.py: get_team_admin_emails
\* get_team_admin_emails.py 135: default_email
DefaultEmail == "devops@firstcitizens.com"

\* What the graph groups listing of the project may hold: no "Team Admin"
\* group, one, one whose record has no "descriptor", a body whose "value"
\* is null, or a body that is not JSON.
GroupsBodies ==
    {"no admin group", "admin group", "admin group without descriptor",
     "null value", "not json"}

\* principalName of a member of the group; "": the member has none
MemberNames == {"a@example.org", "b@example.org", ""}

\* the statuses a GET of get_team_admin_emails may be answered with
AdminStatuses == {OkStatus, NotFound, ServerError}

\* get_team_admin_emails.py 141-162: the exception the groups answer leads
\* to: _request raises AzureDevOpsRequestException on a failed status and
\* response.json() raises on a body that is not JSON (86-97), iterating a
\* null "value" raises TypeError (147-154), team_admin['descriptor'] raises
\* KeyError (162).
GroupsException(st, body) ==
    IF Failed(st) THEN "AzureDevOpsRequestException"
    ELSE CASE body = "not json" -> "ContentTypeError"
           [] body = "null value" -> "TypeError"
           [] body = "admin group without descriptor" -> "KeyError"
           [] OTHER -> "none"

\* get_team_admin_emails.py 142, 165, 178, 184: the handlers around the body
\* end with `except Exception`, which catches every exception raised in it
CaughtNarrow(exc) == exc \in {"AzureDevOpsRequestException", "JSONDecodeError", "TypeError"}
Caught(exc) ==
    exc \in {"AzureDevOpsRequestException", "JSONDecodeError", "TypeError",
             "ContentTypeError", "KeyError"}

\* get_team_admin_emails.py 170-176: the principal names, or the default
EmailsOf(members) ==
    LET emails == SelectSeq(members, LAMBDA name : name # "")
    IN  IF emails = <<>> THEN <<DefaultEmail>> ELSE emails

InitEmails ==
    /\ script = "audit"
    /\ adminPc = "idle"
    /\ groupsBody \in GroupsBodies
    /\ membersBody \in SeqsUpTo(MemberNames, MaxMembersListed)
    /\ groupsStatus = 0
    /\ membersStatus = 0
    /\ adminEmails = <<>>
    /\ argFlag = "n/a"
    /\ envDryRun = "n/a"
    /\ parsed = "n/a"
    /\ InitNoRun
    /\ InitTimeIdle

\* get_team_admin_emails.py 137-141: the groups GET is issued
AdminStart ==
    /\ adminPc = "idle"
    /\ adminPc' = "groups"
    /\ UNCHANGED <<runArgs, asyncVars, failures, mainPc, log, cleanVars,
                   argVars, timeVars, adminServer, groupsStatus,
                   membersStatus, adminEmails, runNo, listed>>

\* get_team_admin_emails.py 141-164, 178-186: the groups answer: an exception
\* returns the default address from its handler; so does a listing without
\* a Team Admin group; otherwise the members GET is issued.
AdminGroupsResp ==
    /\ adminPc = "groups"
    /\ \E st \in AdminStatuses :
        /\ groupsStatus' = st
        /\ LET exc == GroupsException(st, groupsBody)
           IN  IF exc # "none"
               THEN IF Caught(exc)
                    THEN /\ adminPc' = "returned"
                         /\ adminEmails' = <<DefaultEmail>>
                    ELSE /\ adminPc' = "raised"
                         /\ UNCHANGED adminEmails
               ELSE IF groupsBody = "no admin group"
               THEN /\ adminPc' = "returned"
                    /\ adminEmails' = <<DefaultEmail>>
               ELSE /\ adminPc' = "members"
                    /\ UNCHANGED adminEmails
    /\ UNCHANGED <<runArgs, asyncVars, failures, mainPc, log, cleanVars,
                   argVars, timeVars, adminServer, membersStatus, runNo, listed>>

\* get_team_admin_emails.py 163-176: the members answer
AdminMembersResp ==
    /\ adminPc = "members"
    /\ \E st \in AdminStatuses :
        /\ membersStatus' = st
        /\ IF Failed(st)
           THEN IF Caught("AzureDevOpsRequestException")
                THEN /\ adminPc' = "returned"
                     /\ adminEmails' = <<DefaultEmail>>
                ELSE /\ adminPc' = "raised"
                     /\ UNCHANGED adminEmails
           ELSE /\ adminPc' = "returned"
                /\ adminEmails' = EmailsOf(membersBody)
    /\ UNCHANGED <<runArgs, asyncVars, failures, mainPc, log, cleanVars,
                   argVars, timeVars, adminServer, groupsStatus, runNo, listed>>

NextEmails == AdminStart \/ AdminGroupsResp \/ AdminMembersResp

SpecEmails == InitEmails /\ [][NextEmails]_vars

\* ------------------------- the listings of main.py and of the audit script
\* main.py 154-171, get_team_admin_emails.py 99-110: each get_* function
\* issues one GET and returns the "value" of its body; it reads no
\* continuation token and asks for no further page.
FirstPage(l) == ServerPage(l, 1).value

\* A server that answers the listings in pages, and a run about to start.
InitListing ==
    /\ script \in {"main", "audit"}
    /\ capacity = 1
    /\ semValue = capacity
    /\ singleProject = FALSE
    /\ nProjects \in 0..MaxProjects
    /\ children \in [Projects -> SeqsUpTo(IF script = "main" THEN PipelineKinds
                                          ELSE DefKinds, MaxItems)]
    /\ \A p \in Projects : p > nProjects => children[p] = <<>>
    /\ folders = [p \in Projects |-> 0]
    /\ csvFile = "absent"
    /\ emailCsv = "none"
    /\ pageSize \in 1..MaxPageSize
    /\ emptyPage \in BOOLEAN
    /\ nTeams = [p \in Projects |-> 0]
    /\ membersOf = [t \in TeamIds |-> <<>>]
    /\ recording = FALSE
    /\ InitCommon

\* main.py 291, 154-157; get_team_admin_emails.py 279, 99-105: the projects
\* the run goes on with
ListProjects ==
    /\ mainPc = "Start"
    /\ projList' = FirstPage([kind |-> "projects", id |-> 0])
    /\ pIdx' = 0
    /\ mainPc' = "Listing"
    /\ UNCHANGED <<runArgs, asyncVars, failures, log, cleanServer, membersOf,
                   cleanPaging, teamList, memberList, tIdx, mIdx, deletes,
                   argVars, timeVars, adminVars, runNo, listed>>

\* main.py 238, 159-164; get_team_admin_emails.py 236, 107-110: the children
\* of the next project the run classifies
ListChildren ==
    /\ mainPc = "Listing"
    /\ pIdx < Len(projList)
    /\ LET p == projList[pIdx + 1]
       IN  listed' = [listed EXCEPT ![p] = FirstPage([kind |-> "children", id |-> p])]
    /\ pIdx' = pIdx + 1
    /\ UNCHANGED <<runArgs, asyncVars, failures, mainPc, log, cleanServer,
                   membersOf, cleanPaging, projList, teamList, memberList,
                   tIdx, mIdx, deletes, argVars, timeVars, adminVars, runNo>>

\* every project the run has was listed
ListEnd ==
    /\ mainPc = "Listing"
    /\ pIdx = Len(projList)
    /\ mainPc' = "Done"
    /\ UNCHANGED <<runArgs, asyncVars, failures, log, cleanVars, argVars,
                   timeVars, adminVars, runNo, listed>>

NextListing == ListProjects \/ ListChildren \/ ListEnd

SpecListing == InitListing /\ [][NextListing]_vars

\* ------------------------------------ the order of the gathered results
\* The runs of the two asyncio scripts, with the order in which their tasks
\* return recorded.
InitOrder ==
    /\ InitMain \/ InitAudit
    /\ recording = TRUE

NextOrder ==
    \/ MainStart
    \/ MainGetProjectsResp
    \/ \E p \in Projects : FindAcquire(p)
    \/ \E p \in Projects : FindListResp(p)
    \/ \E p \in Projects : FindBuildsResp(p)
    \/ MainGather1Raise
    \/ MainGather1Return
    \/ SetupStart
    \/ SetupGetResp
    \/ SetupPutResp
    \/ SetupFinish
    \/ \E it \in ItemIds : DisableAcquire(it)
    \/ \E it \in ItemIds : DisableGetResp(it)
    \/ \E it \in ItemIds : DisablePutResp(it)
    \/ MainGather2Raise
    \/ MainGather2Return
    \/ AuditStart
    \/ AuditGetProjectsResp
    \/ \E p \in Projects : ProjListResp(p)
    \/ \E it \in ItemIds : DefAcquire(it)
    \/ \E it \in ItemIds : DefGetResp(it)
    \/ \E it \in ItemIds : DefPutResp(it)
    \/ \E p \in Projects : ProjGatherReturn(p)
    \/ AuditGatherReturn
    \/ AuditReport
    \/ \E p \in Projects : CancelParent(p)
    \/ \E it \in ItemIds : CancelItem(it)
    \/ LoopClose

SpecOrder == InitOrder /\ [][NextOrder]_vars

\* ------------------------------ the audit script run twice in a row
\* get_team_admin_emails.py 362-372: the script is started again after a
\* live run none of whose calls failed has ended.  The server keeps its
\* definitions and the CSV file of the earlier run stays on disk; the new
\* process starts with a new semaphore, session and result list.
AuditRunAgain ==
    /\ script = "audit"
    /\ runNo = 1
    /\ ~MainRunning
    /\ loopClosed
    /\ ~dry_run
    /\ failures = 0
    /\ runNo' = 2
    /\ mainPc' = "Start"
    /\ semValue' = capacity
    /\ parentPc' = [p \in Projects |-> "none"]
    /\ itemPc' = [it \in ItemIds |-> "none"]
    /\ result' = [it \in ItemIds |-> [kind |-> "unset"]]
    /\ writesIssued' = [it \in ItemIds |-> 0]
    /\ log' = {}
    /\ sessionClosed' = FALSE
    /\ loopClosed' = FALSE
    /\ sinkError' = "none"
    /\ emailCsv' = "none"
    /\ csvFile' = IF csvFile = "fresh" THEN "stale" ELSE csvFile
    /\ UNCHANGED <<runArgs, failures, children, folders, findIdx, included,
                   setupTodo, setupCur, setupPc, setupCalls, folderPuts,
                   reported, completed, cleanVars, argVars, timeVars,
                   adminVars, listed>>

InitRerun ==
    /\ InitAudit
    /\ recording = FALSE

NextRerun ==
    \/ AuditStart
    \/ AuditGetProjectsResp
    \/ \E p \in Projects : ProjListResp(p)
    \/ \E it \in ItemIds : DefAcquire(it)
    \/ \E it \in ItemIds : DefGetResp(it)
    \/ \E it \in ItemIds : DefPutResp(it)
    \/ \E p \in Projects : ProjGatherReturn(p)
    \/ AuditGatherReturn
    \/ AuditReport
    \/ LoopClose
    \/ AuditRunAgain

SpecRerun == InitRerun /\ [][NextRerun]_vars

\* ================================================================ claims
\* tasks of the asyncio scripts by where they stand
ItemsInGate == {it \in ItemIds : itemPc[it] \in {"get", "put"}}
ItemsWaiting == {it \in ItemIds : itemPc[it] = "wait"}
ParentsInGate == {p \in Projects : script = "main" /\ parentPc[p] \in {"list", "builds"}}
ParentsListing == {p \in Projects : parentPc[p] \in {"list", "builds"}}

\* the server holds the item as the mutation leaves it
Mutated(it) ==
    IF script = "main"
    THEN children[it[1]][it[2]].disabled
    ELSE ~DefUpdated(children[it[1]][it[2]])

\* the calls that change the server's state
MutationCalls == {"PUT definition", "PUT folder", "DELETE membership"}

FailureLoggedFor(it) ==
    \E e \in log : e.item = it /\ Failed(e.status)

\* C1: with gate capacity N and more than N mutations scheduled at once
\* (main.py's disable_and_archive_pipeline tasks, the audit script's
\* process_definition tasks), at most N of them have a call in flight in
\* every reachable state.
C1_MutationsWithinCapacity ==
    script \in {"main", "audit"} => Cardinality(ItemsInGate) <= capacity

\* more tasks than permits: the gate is full, a PUT is in flight and
\* another task waits
C1_Witness ==
    /\ script \in {"main", "audit"}
    /\ Cardinality(ItemsInGate) = capacity
    /\ ItemsWaiting # {}
    /\ \E it \in ItemIds : itemPc[it] = "put"

\* C2: in a dry run no state-changing call is issued: no pipeline PUT, no
\* folder-creating PUT, no release-definition PUT, no membership DELETE.
C2_DryRunIssuesNoWrite ==
    dry_run =>
        /\ \A it \in ItemIds : writesIssued[it] = 0
        /\ \A p \in Projects : folderPuts[p] = 0
        /\ deletes = <<>>

\* a dry run that came to its end with an item the classifier included
C2_Witness ==
    /\ dry_run
    /\ mainPc = "Done"
    /\ \/ script = "main" /\ InactiveSet # {}
       \/ \E e \in log : e.report = "dry-run"

\* C3: in a live batch in which one item's mutation fails, every other item
\* of the batch is still mutated and the run does not raise.
C3_FailureIsolation ==
    (script \in {"main", "audit"} /\ ~dry_run /\ loopClosed) =>
        /\ \A it \in ItemIds :
              (itemPc[it] # "none" /\ ~FailureLoggedFor(it)) =>
                  (itemPc[it] = "done" /\ Mutated(it))
        /\ ~(mainPc = "Raised" /\ \E it \in ItemIds : itemPc[it] = "raised")

\* C4: get_projects, get_teams and get_team_members return the
\* concatenation of all pages of the chain, in order, after one GET per
\* page, and stop at the first page without a continuation token; while
\* they page they hold the concatenation of the pages fetched so far.
C4_PaginationExact ==
    (script = "clean" /\ mainPc = "Paging") =>
        LET chain == Chain(ListingItems(listing))
        IN  IF url = 0
            THEN /\ gets = Len(chain)
                 /\ acc = ConcatAll(chain)
                 /\ acc = ListingItems(listing)
            ELSE /\ url = gets + 1
                 /\ url <= Len(chain)
                 /\ acc = ConcatAll(SubSeq(chain, 1, gets))

\* a listing of three pages, one of them empty but carrying a token, has
\* been read to its end
C4_Witness ==
    /\ script = "clean"
    /\ mainPc = "Paging"
    /\ url = 0
    /\ gets = 3
    /\ Len(acc) = 2
    /\ \E k \in 1..2 : Chain(ListingItems(listing))[k] = <<>>

\* C5: with no --dry-run / --no-dry-run argument and no DRY_RUN environment
\* variable, every script runs as a dry run.
C5_DefaultIsDryRun ==
    (parsed # "unparsed" /\ argFlag = "none" /\ envDryRun = "unset") =>
        parsed = "True"

\* C6: a not-found answer to a mutation call is not reported as a failure.
C6_NotFoundIsSuccess ==
    \A e \in log :
        (e.call \in MutationCalls /\ e.status = NotFound) =>
            e.report \notin {"failed", "error", "raised"}

\* C7: in a live run of main.py get_or_create_folder runs at most once per
\* project and only for projects with an included pipeline; while it runs
\* no task of the fan-out exists; and once a disable task exists it has run
\* exactly once, to completion, for each project with an included pipeline.
HasIncluded(p) == \E it \in InactiveSet : it[1] = p

C7_SetupOnceBeforeMutations ==
    script = "main" =>
        /\ \A p \in Projects :
              /\ setupCalls[p] <= 1
              /\ setupCalls[p] = 1 => (HasIncluded(p) /\ ~dry_run)
        /\ (setupPc # "idle") =>
              /\ \A it \in ItemIds : itemPc[it] = "none"
              /\ \A p \in Projects : parentPc[p] \in {"none", "done"}
        /\ (\E it \in ItemIds : itemPc[it] # "none") =>
              /\ setupPc = "idle"
              /\ setupTodo = {}
              /\ \A p \in Projects : setupCalls[p] = (IF HasIncluded(p) THEN 1 ELSE 0)

\* both projects had their folder set up and a pipeline PUT is in flight
C7_Witness ==
    /\ script = "main"
    /\ \A p \in Projects : setupCalls[p] = 1
    /\ \E it \in ItemIds : itemPc[it] = "put"

\* C8: once the run has ended and closed its session, no mutation that was
\* started is still in flight.
C8_NoMutationInFlightAtEnd ==
    (script \in {"main", "audit"} /\ ~MainRunning /\ sessionClosed) =>
        ItemsInGate = {}

\* C9: the permits outstanding are between 0 and the capacity and are as
\* many as the tasks inside a gated section; a task that has returned or
\* raised holds none, so once asyncio.run has returned every permit is back.
C9_PermitAccounting ==
    script \in {"main", "audit"} =>
        /\ semValue \in 0..capacity
        /\ capacity - semValue = Cardinality(ItemsInGate) + Cardinality(ParentsInGate)
        /\ loopClosed => semValue = capacity

\* the run is over, one task left its gated section by an exception and
\* another by returning
C9_Witness ==
    /\ script = "main"
    /\ loopClosed
    /\ semValue = capacity
    /\ \E it \in ItemIds : itemPc[it] = "raised"
    /\ \E it \in ItemIds : itemPc[it] = "done"

\* C10: at no instant are more than N calls of the fan-out in flight,
\* counting the child listings, the classifier's reads and the mutations
\* of all projects together.
C10_AllCallsWithinCapacity ==
    script \in {"main", "audit"} =>
        Cardinality(ItemsInGate) + Cardinality(ParentsListing) <= capacity

\* C11: in the result of an audit run over the organization (final_result,
\* the rows exported to the CSV file) an item has a record exactly if the
\* classifier included it, that is, if it found a target environment to
\* change: every included item has its row and no excluded item has one.
C11_OutcomePerIncludedItem ==
    (script = "audit" /\ ~singleProject /\ mainPc \in {"Report", "Done"}) =>
        \A it \in ItemIds :
            result[it].kind = "row" => (it \in FinalResult <=> result[it].updated)

\* a project's failed child listing
ChildListingFailed(p) ==
    \/ script = "main" /\ parentPc[p] = "raised" /\ findIdx[p] = 0
    \/ script = "audit" /\ parentPc[p] = "failed"
    \/ /\ script = "clean"
       /\ mainPc = "Raised"
       /\ listing.kind = "teams"
       /\ listing.id = p

\* C12: a failed listing of one project's children does not make the run
\* raise (a run that raises later, in the report sink, is not counted), and
\* when the run is over every other project has been enumerated to its end.
C12_ListingFailureIsolated ==
    \A p \in Projects :
        ChildListingFailed(p) =>
            /\ ~(mainPc = "Raised" /\ sinkError = "none")
            /\ (loopClosed /\ script = "main") =>
                  \A q \in 1..nProjects : q # p => parentPc[q] = "done"

\* C13: at the end of a dry run every item the classifier included has a
\* would-act entry of its own in the log.
C13_DryRunRecordsEachItem ==
    (dry_run /\ mainPc = "Done") =>
        /\ script = "main" =>
              \A it \in InactiveSet :
                  \E e \in log : e.item = it /\ e.report = "dry-run"
        /\ script = "audit" =>
              \A it \in ItemIds :
                  (result[it].kind = "row" /\ result[it].updated) =>
                      \E e \in log : e.item = it /\ e.report = "dry-run"

\* the mutation call of the item failed with a status other than not-found
MutationFailed(it) ==
    \E e \in log :
        /\ e.item = it
        /\ e.call = "PUT definition"
        /\ Failed(e.status)
        /\ e.status # NotFound

\* C14: what the run reports as successfully mutated leaves out the items
\* whose mutation call failed with a status other than not-found: the number
\* main.py logs counts no such item, and no such item has a row with
\* updated = True in the audit script's result.
C14_ReportedCountsOnlySuccess ==
    /\ (script = "main" /\ reported # <<>>) =>
          reported[1] <= Cardinality({it \in InactiveSet : ~MutationFailed(it)})
    /\ (script = "audit" /\ ~dry_run /\ mainPc \in {"Report", "Done"}) =>
          \A it \in ItemIds :
              (result[it].kind = "row" /\ result[it].updated) => ~MutationFailed(it)

\* the indexes, in listing order, of the pipelines of a listing that are
\* older than the threshold and have no build
OldWithoutBuilds(pipelines) ==
    SelectSeq([i \in 1..Len(pipelines) |-> i],
              LAMBDA i : pipelines[i].old /\ ~pipelines[i].builds)

\* C15: find_inactive_pipeline returns exactly the pipelines of the project
\* that are older than the threshold and whose builds lookup finds no build,
\* in listing order, and it looks the builds up only for pipelines older
\* than the threshold.
C15_InactiveExactlyOldWithoutBuilds ==
    script = "main" =>
        /\ \A p \in Projects :
              /\ parentPc[p] = "done" => included[p] = OldWithoutBuilds(children[p])
              /\ parentPc[p] = "builds" => children[p][findIdx[p]].old
        /\ \A e \in log :
              e.report = "inactive since" => children[e.item[1]][e.item[2]].old

\* a project was classified whose first pipeline is old and has builds and
\* whose second is old and has none, next to a project with a recent pipeline
C15_Witness ==
    /\ script = "main"
    /\ \E p \in Projects :
          /\ parentPc[p] = "done"
          /\ Len(children[p]) = 2
          /\ children[p][1].old /\ children[p][1].builds
          /\ included[p] = <<2>>
    /\ \E p \in Projects :
          /\ parentPc[p] = "done"
          /\ \E i \in DOMAIN children[p] : ~children[p][i].old

\* C16: the renderings of one creation second with 0, 3 and 7 fraction
\* digits parse to the same created_date, which is that whole second, and
\* give the same decision against a whole-second threshold: older exactly if
\* the second is before the threshold's.
C16_FractionDigitsIgnored ==
    created_date # <<>> =>
        \A k \in 1..3 :
            /\ created_date[k] = created_date[1]
            /\ created_date[k] - SecondValue(0) = stampSecs
            /\ isOlder[k] = (stampSecs < thresholdSecs)

\* a creation time one second before the threshold, with non-zero fractions,
\* was found older in its 7-digit rendering
C16_Witness ==
    /\ created_date # <<>>
    /\ stampSecs + 1 = thresholdSecs
    /\ frac3 = <<"9", "8", "7">>
    /\ frac7 = <<"1", "2", "3", "4", "5", "6", "7">>
    /\ isOlder[3]

\* C17: the team-cleanup script never issues a DELETE for a member whose
\* descriptor does not start with "aad."; and at the end of a live run in
\* which every call succeeded it has issued one DELETE per (team, member)
\* pair whose descriptor starts with "aad.", no pair twice, so that no such
\* member is left in any team.
C17_ExactlyAadUsersRemoved ==
    script = "clean" =>
        /\ \A k \in DOMAIN deletes : StartsWith(deletes[k][2], AadPrefix)
        /\ (~dry_run /\ mainPc = "Done" /\ failures = 0) =>
              /\ \A j, k \in DOMAIN deletes : deletes[j] = deletes[k] => j = k
              /\ \A t \in TeamIds : \A m \in DOMAIN membersOf[t] :
                    ~StartsWith(membersOf[t][m], AadPrefix)

\* a live run over two teams came to its end: both lost an Azure AD user and
\* one keeps its "aadgp." identity
C17_Witness ==
    /\ script = "clean"
    /\ ~dry_run
    /\ mainPc = "Done"
    /\ failures = 0
    /\ \E j, k \in DOMAIN deletes : deletes[j][1] # deletes[k][1]
    /\ \E t \in TeamIds : membersOf[t] = <<<<"a", "a", "d", "g", "p", ".", "H">>>>

\* C18: get_team_admin_emails never raises and what it returns is never
\* empty; it is exactly the default address when the groups lookup failed,
\* when there is no Team Admin group, when the members lookup failed and
\* when no member has a principal name, and the members' principal names
\* otherwise.
C18_AdminEmailsNeverEmptyNeverRaises ==
    /\ adminPc # "raised"
    /\ adminPc = "returned" =>
          /\ adminEmails # <<>>
          /\ ( \/ Failed(groupsStatus)
               \/ groupsBody = "no admin group"
               \/ Failed(membersStatus)
               \/ \A k \in DOMAIN membersBody : membersBody[k] = "" )
                => adminEmails = <<DefaultEmail>>
          /\ adminEmails # <<DefaultEmail>> =>
                /\ membersStatus = OkStatus
                /\ adminEmails = SelectSeq(membersBody, LAMBDA name : name # "")

\* the call fell back to the default address after its members lookup failed
\* although the group has a member with a principal name
C18_Witness ==
    /\ adminPc = "returned"
    /\ groupsStatus = OkStatus
    /\ Failed(membersStatus)
    /\ \E k \in DOMAIN membersBody : membersBody[k] # ""
    /\ adminEmails = <<DefaultEmail>>

\* the classifier's auxiliary lookup of an item failed: the builds lookup of
\* find_inactive_pipeline, the definition GET of process_definition
AuxLookupFailedIn(p) ==
    \/ script = "main" /\ parentPc[p] = "raised" /\ findIdx[p] > 0
    \/ /\ script = "audit"
       /\ \E e \in log : e.item[1] = p /\ e.call = "GET definition" /\ Failed(e.status)

\* C19: a failed auxiliary lookup of the classifier leaves the item without
\* a mutation and does not stop the classification: the run does not raise
\* because of it and, once the run is over, every other project has been
\* classified to its end.
C19_AuxLookupFailureExcludesItem ==
    \A p \in Projects :
        AuxLookupFailedIn(p) =>
            /\ ~(mainPc = "Raised" /\ sinkError = "none")
            /\ script = "main" => writesIssued[<<p, findIdx[p]>>] = 0
            /\ (loopClosed /\ script = "main") =>
                  \A q \in 1..nProjects : q # p => parentPc[q] = "done"

\* C20: a failure of the report sink, whether opening the CSV file to attach
\* or sending the email, does not propagate: main does not raise.
C20_SinkFailureContained ==
    (script = "audit" /\ sinkError # "none") => mainPc # "Raised"

\* a state-changing call has been issued in this run
MutationStarted ==
    \/ \E it \in ItemIds : writesIssued[it] > 0
    \/ \E p \in Projects : folderPuts[p] > 0

\* a listing or a classification of some project is still to come or in
\* flight: a child listing or builds lookup of main.py, a child listing or
\* a definition read of the audit script
ClassificationInProgress ==
    \/ \E p \in Projects : parentPc[p] \in {"wait", "list", "builds"}
    \/ script = "audit" /\ \E it \in ItemIds : itemPc[it] \in {"wait", "get"}

\* C21: once the first mutation call has been issued no listing and no
\* classification call is in flight or still to be issued: the run has left
\* Enumerating for good before it mutates.
C21_PhasesMoveForward ==
    (script \in {"main", "audit"} /\ MutationStarted) => ~ClassificationInProgress

\* C25: whenever the report email was sent, the CSV file it attached was
\* written by this run.
C25_EmailAttachesThisRunsCsv ==
    (script = "audit" /\ emailCsv # "none") => emailCsv = "fresh"

\* C26: in a live run of main.py a disable-and-archive PUT is in flight for
\* a pipeline only while the archive folder of its project exists.
C26_FolderExistsWhenArchiving ==
    script = "main" =>
        \A it \in ItemIds : itemPc[it] = "put" => folders[it[1]] >= 1

LookupAnswered(p) ==
    /\ setupCalls[p] = 1
    /\ ~(setupCur = p /\ setupPc = "get")
    /\ ~(setupCur = p /\ mainPc = "Raised" /\ folders[p] <= 1
           /\ \A it \in ItemIds : itemPc[it] = "none")

\* C24: get_or_create_folder issues the folder-creating PUT exactly if its
\* lookup found no folder: a PUT is in flight only for a project without a
\* folder, a project whose lookup found no folder had its PUT issued, no
\* project gets two PUTs; and a lookup that finds more than one folder
\* raises without a PUT.
C24_FolderCreatedIffMissing ==
    script = "main" =>
        /\ setupPc = "put" => folders[setupCur] = 0
        /\ \A p \in Projects :
              /\ folderPuts[p] <= 1
              /\ (LookupAnswered(p) /\ folders[p] = 0) => folderPuts[p] = 1
              /\ folders[p] >= 2 => folderPuts[p] = 0
              /\ (LookupAnswered(p) /\ folders[p] >= 2) =>
                    /\ mainPc = "Raised"
                    /\ \A it \in ItemIds : itemPc[it] = "none"

\* one project's folder was created by the run, the other project's folder
\* was found, and the disable tasks have started
C24_Witness ==
    /\ script = "main"
    /\ \E p, q \in Projects :
          /\ folderPuts[p] = 1 /\ folders[p] = 1
          /\ setupCalls[q] = 1 /\ folderPuts[q] = 0 /\ folders[q] = 1
    /\ mainPc = "Gather2"


\* C22: main.py and the audit script classify every project and every child
\* the server has, across all the pages of each listing.
C22_EveryPageClassified ==
    mainPc = "Done" =>
        /\ projList = ListingItems([kind |-> "projects", id |-> 0])
        /\ \A p \in 1..nProjects : listed[p] = children[p]


\* task a is enumerated before task b: an earlier project, or the same
\* project and an earlier item of its listing
EnumeratedBefore(a, b) == a[1] < b[1] \/ (a[1] = b[1] /\ a[2] < b[2])
InEnumerationOrder(seq) ==
    \A a, b \in DOMAIN seq : a < b => EnumeratedBefore(seq[a], seq[b])
ItemsIn(seq) == {seq[k] : k \in DOMAIN seq}

\* the first gather of main.py has returned
InactiveAssembled ==
    /\ script = "main"
    /\ mainPc \notin {"Start", "GetProjects", "Gather1"}
    /\ \A p \in 1..nProjects : parentPc[p] = "done"

\* the gather of the audit script has returned
RowsAssembled ==
    /\ script = "audit"
    /\ ~singleProject
    /\ mainPc \in {"Report", "Done"} \/ (mainPc = "Raised" /\ sinkError # "none")

C23_WitnessMain ==
    /\ script = "main" /\ mainPc = "Done" /\ ~dry_run
    /\ Len(AllInactive) >= 2
    /\ \E a, b \in DOMAIN completed :
          a < b /\ completed[a] = <<2, 0>> /\ completed[b] = <<1, 0>>
    /\ \E a, b \in DOMAIN completed :
          a < b /\ completed[a][2] > 0 /\ completed[b][2] > 0
            /\ EnumeratedBefore(completed[b], completed[a])


\* every environment of every definition on the server whose name is the
\* target, whatever its case, has releaseCreatorCanBeApprover = false
TargetEnvsEnforced ==
    \A p \in 1..nProjects : \A i \in DOMAIN children[p] :
        \A k \in DOMAIN children[p][i].envs :
            LET env == children[p][i].envs[k]
            IN  Lower(env.name) = Lower(TargetEnv) => env.approver = "false"

====
